---- MODULE Spec2Model ----
(***************************************************************************)
(* sarif-to-bb-token: a SARIF report read from stdin is mapped to          *)
(* Bitbucket Code Insights annotations (src/index.js).                     *)
(*                                                                         *)
(* Strings are TLA+ strings; a JavaScript value that may be undefined is   *)
(* a record [some |-> FALSE] or [some |-> TRUE, v |-> value].              *)
(***************************************************************************)
EXTENDS Integers, Sequences, FiniteSets, TLC

VARIABLES
    pc,            \* position of the script / of the async function
    cwd,           \* process.cwd()
    argv,          \* the parsed command line (minimist)
    sarifRaw,      \* what stdin delivered, as the document JSON.parse yields
    items,         \* mapSarif: the mapped annotations, in input order
    unique,        \* mapSarif: the Map of the deduplication, in insertion order
    sorted,        \* mapSarif's return value
    details,       \* buildDetails' return value, with the counts
    resultStatus,  \* the verdict
    vulns,         \* the annotations after the limit
    requests,      \* the HTTP requests issued so far
    error,         \* what .catch(console.error) received
    arg,           \* argument of a function called on its own
    ret            \* its return value

vars == <<pc, cwd, argv, sarifRaw, items, unique, sorted, details,
          resultStatus, vulns, requests, error, arg, ret>>

----------------------------------------------------------------------------
(* JavaScript values and string primitives                                 *)

undefined == [some |-> FALSE]

Some(x) == [some |-> TRUE, v |-> x]

\* a ?? b
Coalesce(a, b) == IF a.some THEN a.v ELSE b

Min(a, b) == IF a <= b THEN a ELSE b

\* s[i] for a 0-based index i
charAt(s, i) == SubSeq(s, i + 1, i + 1)

\* the characters String.prototype.trim and \s treat as white space
WhiteSpace == {" ", "\t", "\n", "\r"}

RECURSIVE trimStart(_)
trimStart(s) ==
    IF s # "" /\ Head(s) \in WhiteSpace THEN trimStart(Tail(s)) ELSE s

RECURSIVE trimEnd(_)
trimEnd(s) ==
    IF s # "" /\ charAt(s, Len(s) - 1) \in WhiteSpace
    THEN trimEnd(SubSeq(s, 1, Len(s) - 1))
    ELSE s

\* String.prototype.trim
trim(s) == trimEnd(trimStart(s))

\* String.prototype.slice(begin, end) for 0 <= begin, 0 <= end
slice(s, begin, end) == SubSeq(s, begin + 1, Min(end, Len(s)))

\* String.prototype.slice(begin)
sliceFrom(s, begin) == SubSeq(s, begin + 1, Len(s))

\* String.prototype.startsWith
startsWith(s, prefix) ==
    Len(prefix) <= Len(s) /\ SubSeq(s, 1, Len(prefix)) = prefix

\* String.prototype.includes
includes(s, sub) ==
    \E i \in 0..(Len(s) - Len(sub)) : SubSeq(s, i + 1, i + Len(sub)) = sub

\* lastIndexOf mistaken for indexOf: the first occurrence
firstIndexOf(s, c) ==
    LET at == {i \in 0..(Len(s) - 1) : charAt(s, i) = c}
    IN  IF at = {} THEN -1 ELSE CHOOSE i \in at : \A j \in at : i <= j

\* String.prototype.lastIndexOf for a single character: 0-based, -1 if none
lastIndexOf(s, c) ==
    LET at == {i \in 0..(Len(s) - 1) : charAt(s, i) = c}
    IN  IF at = {} THEN -1 ELSE CHOOSE i \in at : \A j \in at : j <= i

UpperCase ==
    <<"A", "B", "C", "D", "E", "F", "G", "H", "I", "J", "K", "L", "M",
      "N", "O", "P", "Q", "R", "S", "T", "U", "V", "W", "X", "Y", "Z">>

LowerCase ==
    <<"a", "b", "c", "d", "e", "f", "g", "h", "i", "j", "k", "l", "m",
      "n", "o", "p", "q", "r", "s", "t", "u", "v", "w", "x", "y", "z">>

toLowerChar(c) ==
    IF \E k \in DOMAIN UpperCase : UpperCase[k] = c
    THEN LowerCase[CHOOSE k \in DOMAIN UpperCase : UpperCase[k] = c]
    ELSE c

\* String.prototype.toLowerCase
RECURSIVE toLowerCase(_)
toLowerCase(s) ==
    IF s = "" THEN "" ELSE toLowerChar(Head(s)) \o toLowerCase(Tail(s))

\* s.replace(/\\/g, "/")
RECURSIVE replaceBackslashes(_)
replaceBackslashes(s) ==
    IF s = "" THEN ""
    ELSE (IF Head(s) = "\\" THEN "/" ELSE Head(s)) \o replaceBackslashes(Tail(s))

\* s.replace(/^file:\/\//, "")
stripFileScheme(s) ==
    IF startsWith(s, "file://") THEN sliceFrom(s, 7) ELSE s

\* s.replace(/^\/+/, "")
RECURSIVE stripLeadingSlashes(_)
stripLeadingSlashes(s) ==
    IF s # "" /\ Head(s) = "/" THEN stripLeadingSlashes(Tail(s)) ELSE s

\* s.replace(/\s+/g, "")
RECURSIVE removeWhiteSpace(_)
removeWhiteSpace(s) ==
    IF s = "" THEN ""
    ELSE (IF Head(s) \in WhiteSpace THEN "" ELSE Head(s)) \o removeWhiteSpace(Tail(s))

Digits == <<"0", "1", "2", "3", "4", "5", "6", "7", "8", "9">>

\* the decimal text of a non-negative integer in a template literal
RECURSIVE numberToString(_)
numberToString(n) ==
    IF n < 10 THEN Digits[n + 1]
    ELSE numberToString(n \div 10) \o Digits[(n % 10) + 1]

\* RegExp.prototype.test for an alternation of literal fragments
regexTest(alternatives, s) ==
    \E i \in 0..Len(s) : \E k \in DOMAIN alternatives :
        startsWith(sliceFrom(s, i), alternatives[k])

----------------------------------------------------------------------------
(* src/index.js: the pure functions                                        *)

\* function normalizePath(p), with process.cwd() as the parameter dir
normalizePath(p, dir) ==
    IF ~p.some \/ p.v = "" THEN "unknown"
    ELSE LET p1  == replaceBackslashes(p.v)
             p2  == stripFileScheme(p1)
             p3  == stripLeadingSlashes(p2)
             wd  == replaceBackslashes(dir)
             p4  == IF startsWith(p3, wd)
                    THEN stripLeadingSlashes(sliceFrom(p3, Len(wd)))
                    ELSE p3
         IN  trim(p4)

LIMIT == 450

Ellipsis == "..."

\* function smartSummary(text)
smartSummary(text) ==
    IF text = "" THEN ""
    ELSE LET t   == trim(text)
             cut == slice(t, 0, LIMIT)
         IN  IF Len(t) <= LIMIT THEN t
             ELSE (IF includes(cut, " ")
                   THEN slice(cut, 0, lastIndexOf(cut, " "))
                   ELSE cut) \o Ellipsis

CriticalPattern ==
    <<"rce", "remote code", "command injection", "prototype pollution",
      "sql injection", "path traversal", "arbitrary file write", "takeover">>

HighPattern ==
    <<"csrf", "xss", "cross-site", "cross site", "auth bypass",
      "authorization", "hardcoded", "jwt", "token",
      "insecure deserialization", "open redirect">>

MediumPattern ==
    <<"missing integrity", "weak crypt", "md5", "sha1", "audit",
      "insecure configuration", "skip-tls", "insecure">>

\* inferSeverity with the HIGH test ahead of the CRITICAL one
inferSeverityHighFirst(ruleId, text) ==
    LET s == toLowerCase(ruleId \o " " \o text)
    IN  IF regexTest(HighPattern, s) THEN "HIGH"
        ELSE IF regexTest(CriticalPattern, s) THEN "CRITICAL"
        ELSE IF regexTest(MediumPattern, s) THEN "MEDIUM"
        ELSE "LOW"

\* function inferSeverity(ruleId, text)
inferSeverity(ruleId, text) ==
    LET s == toLowerCase(ruleId \o " " \o text)
    IN  IF regexTest(CriticalPattern, s) THEN "CRITICAL"
        ELSE IF regexTest(HighPattern, s) THEN "HIGH"
        ELSE IF regexTest(MediumPattern, s) THEN "MEDIUM"
        ELSE "LOW"

----------------------------------------------------------------------------
(* src/index.js: command line, SARIF helpers, mapSarif, buildDetails       *)

BB_USER == argv.user

BB_APP_PASSWORD == argv.password

BB_TOKEN == argv.token

\* REPO, COMMIT and WORKSPACE, all three given
COORDINATES == argv.coordinates

\* argv["fail-on-high"] || false
FAIL_ON_HIGH == IF argv.failOnHigh.some THEN argv.failOnHigh.v ELSE FALSE

\* argv["fail-on-critical"] || false
FAIL_ON_CRITICAL ==
    IF argv.failOnCritical.some THEN argv.failOnCritical.v ELSE FALSE

\* argv["max-annotations"] ?? 100
MAX_ANNOTATIONS == Coalesce(argv.maxAnnotations, 100)

\* const paramsAreValid
paramsAreValid ==
    IF ~BB_TOKEN /\ ~BB_USER THEN FALSE
    ELSE IF ~BB_TOKEN /\ ~BB_APP_PASSWORD THEN FALSE
    ELSE IF ~COORDINATES THEN FALSE
    ELSE TRUE

\* the object of the reduce in rulesAsMap, one step: {...map, [rule.id]: rule}
spreadRule(map, rule) ==
    [id \in (DOMAIN map) \cup {rule.id} |->
        IF id = rule.id THEN rule ELSE map[id]]

RECURSIVE reduceRules(_, _)
reduceRules(rules, map) ==
    IF rules = <<>> THEN map
    ELSE reduceRules(Tail(rules), spreadRule(map, Head(rules)))

\* a call that returned x, a call that threw e
Return(x) == [threw |-> FALSE, value |-> x]

Throw(e) == [threw |-> TRUE, error |-> e]

\* rulesAsMap taking a missing catalog for an empty one: (rules ?? []).reduce
rulesAsMapOrEmpty(rules) ==
    Return(reduceRules(Coalesce(rules, <<>>), <<>>))

\* const rulesAsMap, called with tool.driver.rules: reduce is read off the
\* argument, so an undefined argument is a TypeError; the empty object is the
\* function of empty domain
rulesAsMap(rules) ==
    IF ~rules.some THEN Throw("TypeError")
    ELSE Return(reduceRules(rules.v, <<>>))

\* const getRuleText
getRuleText(result, rulesMap) ==
    LET known == result.ruleId \in DOMAIN rulesMap
        full  == IF known THEN rulesMap[result.ruleId].fullDescription
                 ELSE undefined
        short == IF known THEN rulesMap[result.ruleId].shortDescription
                 ELSE undefined
    IN  IF full.some THEN full.v
        ELSE IF short.some THEN short.v
        ELSE Coalesce(result.message, "")

\* the line taken from endLine first: region?.endLine ?? region?.startLine ?? 1
annotationLineEndFirst(result) ==
    Coalesce(result.endLine, Coalesce(result.startLine, 1))

\* region?.startLine ?? 1
annotationLine(result) == Coalesce(result.startLine, 1)

\* the callback of results.map; uuidv4() is modelled by the finding's
\* position, which is fresh within the invocation
mapResult(result, index, rulesMap, dir) ==
    LET fullText == getRuleText(result, rulesMap)
    IN  [external_id     |-> index,
         annotation_type |-> "ISSUE",
         severity        |-> inferSeverity(result.ruleId, fullText),
         title           |-> smartSummary(fullText),
         summary         |-> smartSummary(fullText),
         message         |-> fullText,
         path            |-> normalizePath(result.uri, dir),
         line            |-> annotationLine(result),
         ruleId          |-> result.ruleId]

\* let items = sarif.runs[0].results.map(...)
mapResults(results, rulesMap, dir) ==
    [i \in DOMAIN results |-> mapResult(results[i], i, rulesMap, dir)]

\* `${i.ruleId}_${i.path}_${i.line}`
dedupKey(i) == i.ruleId \o "_" \o i.path \o "_" \o numberToString(i.line)

\* Map.prototype.set on a Map held as its entries in insertion order
mapSet(map, key, value) ==
    IF \E k \in DOMAIN map : map[k].key = key
    THEN [k \in DOMAIN map |->
             IF map[k].key = key THEN [key |-> key, value |-> value]
             ELSE map[k]]
    ELSE Append(map, [key |-> key, value |-> value])

\* items.forEach((i) => unique.set(key, i))
RECURSIVE deduplicate(_, _)
deduplicate(list, map) ==
    IF list = <<>> THEN map
    ELSE deduplicate(Tail(list), mapSet(map, dedupKey(Head(list)), Head(list)))

\* [...unique.values()]
mapValues(map) == [k \in DOMAIN map |-> map[k].value]

SeverityOrder == <<"CRITICAL", "HIGH", "MEDIUM", "LOW">>

\* ["CRITICAL", "HIGH", "MEDIUM", "LOW"].indexOf(severity)
severityIndex(severity) ==
    IF \E k \in DOMAIN SeverityOrder : SeverityOrder[k] = severity
    THEN (CHOOSE k \in DOMAIN SeverityOrder : SeverityOrder[k] = severity) - 1
    ELSE -1

\* the comparator given to sort
compareSeverity(a, b) == severityIndex(a.severity) - severityIndex(b.severity)

\* an unstable sort: x put ahead of the elements it compares equal to
RECURSIVE insertBeforeEqual(_, _)
insertBeforeEqual(list, x) ==
    IF list = <<>> THEN <<x>>
    ELSE IF compareSeverity(Head(list), x) >= 0 THEN <<x>> \o list
    ELSE <<Head(list)>> \o insertBeforeEqual(Tail(list), x)

\* x put behind every element that does not compare greater than it
RECURSIVE insertOrdered(_, _)
insertOrdered(list, x) ==
    IF list = <<>> THEN <<x>>
    ELSE IF compareSeverity(Head(list), x) > 0 THEN <<x>> \o list
    ELSE <<Head(list)>> \o insertOrdered(Tail(list), x)

\* Array.prototype.sort with the comparator: a stable sort
RECURSIVE sortBySeverity(_, _)
sortBySeverity(list, done) ==
    IF list = <<>> THEN done
    ELSE sortBySeverity(Tail(list), insertOrdered(done, Head(list)))

\* the count set instead of incremented: counts[v.severity] = 1
RECURSIVE countSeveritiesOnce(_, _)
countSeveritiesOnce(list, counts) ==
    IF list = <<>> THEN counts
    ELSE countSeveritiesOnce(Tail(list),
            [counts EXCEPT ![Head(list).severity] = 1])

\* vulns.forEach(v => counts[v.severity]++)
RECURSIVE countSeverities(_, _)
countSeverities(list, counts) ==
    IF list = <<>> THEN counts
    ELSE countSeverities(Tail(list),
            [counts EXCEPT ![Head(list).severity] = @ + 1])

\* stands for the bullet U+2022 of the details text
Bullet == "*"

\* function buildDetails(vulns); counts is kept beside the returned fields
buildDetails(list) ==
    LET counts  == countSeverities(list,
                      [CRITICAL |-> 0, HIGH |-> 0, MEDIUM |-> 0, LOW |-> 0])
        highest == IF counts.CRITICAL > 0 THEN "CRITICAL"
                   ELSE IF counts.HIGH > 0 THEN "HIGH"
                   ELSE IF counts.MEDIUM > 0 THEN "MEDIUM"
                   ELSE "LOW"
        text    == "Security Scan Summary  "
                   \o "Findings by severity:  "
                   \o Bullet \o " CRITICAL: " \o numberToString(counts.CRITICAL) \o "  "
                   \o Bullet \o " HIGH: " \o numberToString(counts.HIGH) \o "  "
                   \o Bullet \o " MEDIUM: " \o numberToString(counts.MEDIUM) \o "  "
                   \o Bullet \o " LOW: " \o numberToString(counts.LOW) \o "  "
                   \o "Highest severity: " \o highest
    IN  [summary |-> text, highest |-> highest, counts |-> counts]

\* the verdict with HIGH failing by default
verdictHighByDefault(highest, failOnHigh, failOnCritical) ==
    IF highest = "CRITICAL" \/ highest = "HIGH" THEN "FAILED" ELSE "PASSED"

\* fail-on-high deciding the verdict by HIGH alone
verdictHighAlone(highest, failOnHigh, failOnCritical) ==
    LET s1 == IF highest = "CRITICAL" THEN "FAILED" ELSE "PASSED"
        s2 == IF failOnHigh
              THEN (IF highest = "HIGH" THEN "FAILED" ELSE "PASSED")
              ELSE s1
        s3 == IF failOnCritical /\ highest = "CRITICAL" THEN "FAILED" ELSE s2
    IN  s3

\* sarifToBitBucket: Determine PR fail/pass state
verdict(highest, failOnHigh, failOnCritical) ==
    LET s1 == IF highest = "CRITICAL" THEN "FAILED" ELSE "PASSED"
        s2 == IF failOnHigh /\ (highest = "HIGH" \/ highest = "CRITICAL")
              THEN "FAILED" ELSE s1
        s3 == IF failOnCritical /\ highest = "CRITICAL" THEN "FAILED" ELSE s2
    IN  s3

\* the limit one short: vulns.slice(0, MAX_ANNOTATIONS - 1)
limitAnnotationsOneShort(list, max) ==
    IF Len(list) > max THEN SubSeq(list, 1, Min(max - 1, Len(list))) ELSE list

\* sarifToBitBucket: Limit annotations
limitAnnotations(list, max) ==
    IF Len(list) > max THEN SubSeq(list, 1, Min(max, Len(list))) ELSE list

\* scanName.replace(/\s+/g, "").toLowerCase()
scanIdOf(scanName) == toLowerCase(removeWhiteSpace(scanName))

\* the exception the synchronous part of sarifToBitBucket raises on the
\* document, "" if none
thrownBy(doc) ==
    IF ~doc.json THEN "SyntaxError"            \* JSON.parse
    ELSE IF ~doc.run0 THEN "TypeError"         \* sarif.runs[0].tool
    ELSE IF ~doc.name.some THEN "TypeError"    \* scanName.replace
    ELSE IF rulesAsMap(doc.rules).threw        \* rules.reduce
        THEN rulesAsMap(doc.rules).error
    ELSE IF ~doc.results.some THEN "TypeError" \* results.map
    ELSE ""

\* const config
requestConfig == IF BB_TOKEN THEN "Bearer" ELSE "Basic"

----------------------------------------------------------------------------
(* The functions called on their own: the argument is drawn in the initial *)
(* state, one action applies the function.                                 *)

\* the state of the script's own variables while a function is called alone
ScriptIdle ==
    /\ argv = [token |-> TRUE, user |-> FALSE, password |-> FALSE,
               coordinates |-> TRUE, failOnHigh |-> undefined,
               failOnCritical |-> undefined, maxAnnotations |-> undefined]
    /\ sarifRaw = undefined
    /\ items = <<>>
    /\ unique = <<>>
    /\ sorted = <<>>
    /\ details = undefined
    /\ resultStatus = undefined
    /\ vulns = <<>>
    /\ requests = <<>>
    /\ error = undefined

ScriptUnchanged ==
    UNCHANGED <<cwd, argv, sarifRaw, items, unique, sorted, details,
                resultStatus, vulns, requests, error, arg>>

\* ---- smartSummary ----

\* how far beyond LIMIT the drawn texts reach
MaxExtra == 50

\* 1-based positions of a drawn text that hold a space, a tab or a letter
MarkPositions == {1, 2, LIMIT - 9, LIMIT - 1, LIMIT, LIMIT + 1}

MarkCharacters == {"a", " ", "\t"}

TextLengths ==
    {0, 1, 3, LIMIT - 1, LIMIT, LIMIT + 1, LIMIT + 3, LIMIT + MaxExtra}

\* the characters lo..hi of the text that has marks[i] at the marked
\* positions and the letter a elsewhere
RECURSIVE textBetween(_, _, _)
textBetween(lo, hi, marks) ==
    IF lo > hi THEN ""
    ELSE IF lo = hi THEN (IF lo \in DOMAIN marks THEN marks[lo] ELSE "a")
    ELSE LET mid == (lo + hi) \div 2
         IN  textBetween(lo, mid, marks) \o textBetween(mid + 1, hi, marks)

SummaryInputs ==
    {textBetween(1, n, marks) :
        n \in TextLengths, marks \in [MarkPositions -> MarkCharacters]}

InitSummary ==
    /\ pc = "smartSummary"
    /\ cwd = "/home/ci/repo"
    /\ arg \in SummaryInputs
    /\ ret = undefined
    /\ ScriptIdle

callSmartSummary ==
    /\ pc = "smartSummary"
    /\ ret' = Some(smartSummary(arg))
    /\ pc' = "return"
    /\ ScriptUnchanged

NextSummary == callSmartSummary

SpecSummary == InitSummary /\ [][NextSummary]_vars

\* ---- normalizePath ----

WorkingDirectories == {"/home/ci/repo", "/", "/repo", "C:\\ci\\repo"}

UriSchemes == {"", "file://"}

UriSeparators == {"", "/", "//"}

UriTails == {"", "src/app.js", "app\\x.js", " ", " src/a b.js ", "unknown"}

\* the location URI an argument record stands for
uriOf(a) ==
    IF a.absent THEN undefined ELSE Some(a.scheme \o a.dir \o a.sep \o a.rel)

PathInputs(dir) ==
    [absent : {FALSE}, scheme : UriSchemes,
     dir : {"", dir, replaceBackslashes(dir), "/srv"},
     sep : UriSeparators, rel : UriTails]
    \cup {[absent |-> TRUE, scheme |-> "", dir |-> "", sep |-> "", rel |-> ""]}

InitPath ==
    /\ pc = "normalizePath"
    /\ cwd \in WorkingDirectories
    /\ arg \in PathInputs(cwd)
    /\ ret = undefined
    /\ ScriptIdle

callNormalizePath ==
    /\ pc = "normalizePath"
    /\ ret' = Some(normalizePath(uriOf(arg), cwd))
    /\ pc' = "return"
    /\ ScriptUnchanged

NextPath == callNormalizePath

SpecPath == InitPath /\ [][NextPath]_vars

\* ---- inferSeverity ----

SeverityRuleIds == {"", "lint/no-var", "javascript/XSS", "remote", "x"}

SeverityWords ==
    {"", "foo", "SQL Injection", "sourCE", "code", "ss", "Cross-Site",
     "cross site", "JWT", "Insecure Deserialization", "md5", "Audit",
     "skip-tls", "crosssite"}

SeverityTexts ==
    SeverityWords \cup {a \o " " \o b : a \in SeverityWords, b \in SeverityWords}

InitSeverity ==
    /\ pc = "inferSeverity"
    /\ cwd = "/home/ci/repo"
    /\ arg \in [ruleId : SeverityRuleIds, text : SeverityTexts]
    /\ ret = undefined
    /\ ScriptIdle

callInferSeverity ==
    /\ pc = "inferSeverity"
    /\ ret' = Some(inferSeverity(arg.ruleId, arg.text))
    /\ pc' = "return"
    /\ ScriptUnchanged

NextSeverity == callInferSeverity

SpecSeverity == InitSeverity /\ [][NextSeverity]_vars

----------------------------------------------------------------------------
(* The script: validation, stdin, sarifToBitBucket and its three requests  *)

\* the longest results array drawn
MaxFindings == 3

\* the largest --max-annotations value drawn
MaxAnnotationsArg == 2

Finding(ruleId, message, uri, startLine, endLine) ==
    [ruleId |-> ruleId, message |-> message, uri |-> uri,
     startLine |-> startLine, endLine |-> endLine]

\* the results drawn: message is message?.text, uri the location's
\* artifactLocation?.uri, startLine and endLine the region's
Findings ==
    {Finding("a_b", Some("SQL Injection in query"), Some("c"),
             Some(1), undefined),
     Finding("a", Some("plain finding"), Some("b_c"),
             undefined, Some(3)),
     Finding("a_b", Some("Hardcoded password"), Some("file:///c"),
             Some(1), Some(2)),
     Finding("R7", undefined, undefined,
             Some(12), Some(14))}

Rule(id, fullDescription, shortDescription) ==
    [id |-> id, fullDescription |-> fullDescription,
     shortDescription |-> shortDescription]

\* the rule catalogs drawn; the last has a duplicate id
Catalogs ==
    {<<>>,
     <<Rule("R7", undefined, Some("Audit finding"))>>,
     <<Rule("R7", undefined, Some("Audit finding")),
       Rule("R7", Some("Remote Code execution"), Some("short"))>>}

RECURSIVE SeqsUpTo(_, _)
SeqsUpTo(S, n) ==
    IF n = 0 THEN {<<>>}
    ELSE LET shorter == SeqsUpTo(S, n - 1)
         IN  shorter \cup {Append(q, x) : q \in shorter, x \in S}

Document(json, run0, name, rules, results) ==
    [json |-> json, run0 |-> run0, name |-> name, rules |-> rules,
     results |-> results]

\* what stdin can hold: reports with and without a rule catalog, and the
\* malformed inputs
Documents ==
    {Document(TRUE, TRUE, Some("Snyk Code"), rules, Some(results)) :
        rules \in {Some(c) : c \in Catalogs} \cup {undefined},
        results \in SeqsUpTo(Findings, MaxFindings)}
    \cup {Document(FALSE, FALSE, undefined, undefined, undefined),
          Document(TRUE, FALSE, undefined, undefined, undefined),
          Document(TRUE, TRUE, undefined, Some(<<>>), Some(<<>>)),
          Document(TRUE, TRUE, Some("Snyk Code"), Some(<<>>), undefined)}

\* the command lines drawn
CommandLines ==
    {[token |-> c[1], user |-> c[2], password |-> c[3], coordinates |-> c[4],
      failOnHigh |-> h, failOnCritical |-> k, maxAnnotations |-> m] :
        c \in {<<TRUE, FALSE, FALSE, TRUE>>, <<FALSE, TRUE, TRUE, TRUE>>,
               <<FALSE, TRUE, FALSE, TRUE>>, <<FALSE, FALSE, TRUE, TRUE>>,
               <<TRUE, FALSE, FALSE, FALSE>>},
        h \in {undefined, Some(TRUE)},
        k \in {undefined, Some(TRUE)},
        m \in {undefined} \cup {Some(n) : n \in 0..MaxAnnotationsArg}}

Init ==
    /\ pc = "start"
    /\ cwd = "/home/ci/repo"
    /\ argv \in CommandLines
    /\ sarifRaw = undefined
    /\ items = <<>>
    /\ unique = <<>>
    /\ sorted = <<>>
    /\ details = undefined
    /\ resultStatus = undefined
    /\ vulns = <<>>
    /\ requests = <<>>
    /\ error = undefined
    /\ arg = undefined
    /\ ret = undefined

\* if (paramsAreValid()) { getInput()... }
main ==
    /\ pc = "start"
    /\ pc' = IF paramsAreValid THEN "getInput" ELSE "exit"
    /\ UNCHANGED <<cwd, argv, sarifRaw, items, unique, sorted, details,
                   resultStatus, vulns, requests, error, arg, ret>>

\* stdin ends: the promise of getInput resolves with the data
getInputResolved ==
    /\ pc = "getInput"
    /\ \E doc \in Documents : sarifRaw' = Some(doc)
    /\ pc' = "sarifToBitBucket"
    /\ UNCHANGED <<cwd, argv, items, unique, sorted, details,
                   resultStatus, vulns, requests, error, arg, ret>>

\* stdin errors: the promise rejects, .catch(console.error) runs
getInputRejected ==
    /\ pc = "getInput"
    /\ error' = Some("stdin")
    /\ pc' = "caught"
    /\ UNCHANGED <<cwd, argv, sarifRaw, items, unique, sorted, details,
                   resultStatus, vulns, requests, arg, ret>>

deleteRequest(scanId) ==
    [method |-> "DELETE", report |-> scanId, config |-> requestConfig]

putRequest(scanId, scanName, result, text) ==
    [method |-> "PUT", report |-> scanId, config |-> requestConfig,
     title |-> scanName \o " Security Scan", report_type |-> "SECURITY",
     reporter |-> "sarif-to-bb-token", result |-> result, details |-> text]

postRequest(scanId, annotations) ==
    [method |-> "POST", report |-> scanId, config |-> requestConfig,
     annotations |-> annotations]

\* sarifToBitBucket up to its first await: parse, mapSarif (items, unique
\* and the sorted values are its locals), buildDetails, verdict, limit, and
\* the DELETE request issued; an exception rejects the promise
sarifToBitBucket ==
    /\ pc = "sarifToBitBucket"
    /\ LET sarif == sarifRaw.v
       IN  IF thrownBy(sarif) # ""
           THEN /\ error' = Some(thrownBy(sarif))
                /\ pc' = "caught"
                /\ UNCHANGED <<items, unique, sorted, details, resultStatus,
                               vulns, requests>>
           ELSE /\ items' = mapResults(sarif.results.v,
                                        rulesAsMap(sarif.rules).value, cwd)
                /\ unique' = deduplicate(items', <<>>)
                /\ sorted' = sortBySeverity(mapValues(unique'), <<>>)
                /\ details' = Some(buildDetails(sorted'))
                /\ resultStatus' =
                       Some(verdict(details'.v.highest, FAIL_ON_HIGH,
                                    FAIL_ON_CRITICAL))
                /\ vulns' = limitAnnotations(sorted', MAX_ANNOTATIONS)
                /\ requests' = <<deleteRequest(scanIdOf(sarif.name.v))>>
                /\ pc' = "awaitDelete"
                /\ UNCHANGED error
    /\ UNCHANGED <<cwd, argv, sarifRaw, arg, ret>>

\* the DELETE succeeds: the PUT is issued
deleteFulfilled ==
    /\ pc = "awaitDelete"
    /\ requests' = Append(requests,
           putRequest(scanIdOf(sarifRaw.v.name.v), sarifRaw.v.name.v,
                      resultStatus.v, details.v.summary))
    /\ pc' = "awaitPut"
    /\ UNCHANGED <<cwd, argv, sarifRaw, items, unique, sorted, details,
                   resultStatus, vulns, error, arg, ret>>

\* the PUT succeeds: the POST is issued
putFulfilled ==
    /\ pc = "awaitPut"
    /\ requests' = Append(requests,
           postRequest(scanIdOf(sarifRaw.v.name.v), vulns))
    /\ pc' = "awaitPost"
    /\ UNCHANGED <<cwd, argv, sarifRaw, items, unique, sorted, details,
                   resultStatus, vulns, error, arg, ret>>

\* the POST succeeds: the async function returns
postFulfilled ==
    /\ pc = "awaitPost"
    /\ pc' = "done"
    /\ UNCHANGED <<cwd, argv, sarifRaw, items, unique, sorted, details,
                   resultStatus, vulns, requests, error, arg, ret>>

\* a rejected DELETE swallowed (a try/catch around it): the PUT is issued
\* all the same; a rejected PUT or POST ends the function
requestRejectedDeleteIgnored ==
    /\ pc \in {"awaitDelete", "awaitPut", "awaitPost"}
    /\ error' = Some("AxiosError")
    /\ IF pc = "awaitDelete"
       THEN /\ requests' = Append(requests,
                   putRequest(scanIdOf(sarifRaw.v.name.v), sarifRaw.v.name.v,
                              resultStatus.v, details.v.summary))
            /\ pc' = "awaitPut"
       ELSE /\ requests' = requests
            /\ pc' = "caught"
    /\ UNCHANGED <<cwd, argv, sarifRaw, items, unique, sorted, details,
                   resultStatus, vulns, arg, ret>>

\* axios rejects the awaited request (network error or a status outside
\* 2xx): the async function throws, .catch(console.error) runs
requestRejected ==
    /\ pc \in {"awaitDelete", "awaitPut", "awaitPost"}
    /\ error' = Some("AxiosError")
    /\ pc' = "caught"
    /\ UNCHANGED <<cwd, argv, sarifRaw, items, unique, sorted, details,
                   resultStatus, vulns, requests, arg, ret>>

Next ==
    \/ main
    \/ getInputResolved
    \/ getInputRejected
    \/ sarifToBitBucket
    \/ deleteFulfilled
    \/ putFulfilled
    \/ postFulfilled
    \/ requestRejected

Spec == Init /\ [][Next]_vars

----------------------------------------------------------------------------
(* Properties                                                              *)

\* the synchronous part of sarifToBitBucket ran to its first await
Transformed == details.some

\* the findings of the report on stdin
resultsRead == sarifRaw.v.results.v

hasSeverity(list, severities) ==
    \E i \in DOMAIN list : list[i].severity \in severities

\* C1 (as claimed): with neither flag set the verdict is FAILED exactly when
\* the deduplicated annotations hold a CRITICAL or a HIGH one, else PASSED
C1_DefaultFailsOnCriticalOrHigh ==
    (Transformed /\ ~FAIL_ON_HIGH /\ ~FAIL_ON_CRITICAL) =>
        resultStatus.v =
            IF hasSeverity(sorted, {"CRITICAL", "HIGH"}) THEN "FAILED"
            ELSE "PASSED"

\* C1 (amended): with neither flag set the verdict is FAILED exactly when
\* the deduplicated annotations hold a CRITICAL one, else PASSED
C1_DefaultFailsOnCriticalOnly ==
    (Transformed /\ ~FAIL_ON_HIGH /\ ~FAIL_ON_CRITICAL) =>
        resultStatus.v =
            IF hasSeverity(sorted, {"CRITICAL"}) THEN "FAILED" ELSE "PASSED"

\* C1 witness: no flag, a HIGH annotation and no CRITICAL one, verdict PASSED
C1_Witness ==
    /\ Transformed /\ ~FAIL_ON_HIGH /\ ~FAIL_ON_CRITICAL
    /\ hasSeverity(sorted, {"HIGH"})
    /\ ~hasSeverity(sorted, {"CRITICAL"})
    /\ resultStatus.v = "PASSED"

\* C2 (as claimed): whatever the text, smartSummary returns at most 450
\* characters, the ellipsis included
C2_SummaryAtMost450 ==
    pc = "return" => Len(ret.v) <= 450

\* a relative path as a report writes it: not empty, no leading slash, no
\* surrounding white space, forward slashes only
isRelativePath(r) ==
    /\ r # ""
    /\ Head(r) # "/"
    /\ trim(r) = r
    /\ ~includes(r, "\\")

\* C3 (as claimed): for the URI file:// + W + "/" + R, W the working
\* directory starting with "/" and R a relative path, normalizePath returns R
C3_WorkingDirectoryStripped ==
    (/\ pc = "return"
     /\ ~arg.absent
     /\ arg.scheme = "file://"
     /\ arg.dir = cwd
     /\ Head(cwd) = "/"
     /\ arg.sep = "/"
     /\ isRelativePath(arg.rel)) => ret.v = arg.rel

identity(annotation) == <<annotation.ruleId, annotation.path, annotation.line>>

identities(list) == {identity(list[i]) : i \in DOMAIN list}

\* C4 (as claimed): mapped annotations collapse into one exactly when their
\* rule id, path and line are equal: the deduplicated annotations have
\* pairwise different identities and cover every identity that was mapped
C4_CollapseIffSameIdentity ==
    Transformed =>
        /\ \A k, l \in DOMAIN unique :
               identity(unique[k].value) = identity(unique[l].value) => k = l
        /\ identities(mapValues(unique)) = identities(items)

\* the position of the last mapped annotation with the identity of items[i]
lastWithIdentity(i) ==
    CHOOSE j \in DOMAIN items :
        /\ identity(items[j]) = identity(items[i])
        /\ \A l \in DOMAIN items :
               identity(items[l]) = identity(items[i]) => l <= j

\* C5 (as claimed): when several findings share rule id, normalized path and
\* line, the output holds exactly one annotation of that identity, and it is
\* the last such finding's
C5_LastOfSharedIdentityKept ==
    Transformed =>
        \A i, j \in DOMAIN items :
            (i < j /\ identity(items[i]) = identity(items[j])) =>
                /\ Cardinality({k \in DOMAIN sorted :
                       identity(sorted[k]) = identity(items[i])}) = 1
                /\ \E k \in DOMAIN sorted : sorted[k] = items[lastWithIdentity(i)]

\* C6 (as claimed): the annotation line is the region's endLine if present,
\* otherwise its startLine if present, otherwise 1
C6_LineIsEndLineFirst ==
    Transformed =>
        \A i \in DOMAIN items :
            items[i].line =
                IF resultsRead[i].endLine.some THEN resultsRead[i].endLine.v
                ELSE IF resultsRead[i].startLine.some
                     THEN resultsRead[i].startLine.v
                ELSE 1

\* C6 (amended): the annotation line is the region's startLine if present,
\* otherwise 1, whatever its endLine
C6_LineIsStartLineOrOne ==
    Transformed =>
        /\ Len(items) = Len(resultsRead)
        /\ \A i \in DOMAIN items :
               items[i].line =
                   IF resultsRead[i].startLine.some
                   THEN resultsRead[i].startLine.v
                   ELSE 1

\* C6 witness: a finding with an endLine other than its startLine, and one
\* with an endLine and no startLine, both mapped
C6_Witness ==
    /\ Transformed
    /\ \E i \in DOMAIN items :
           /\ resultsRead[i].endLine.some /\ resultsRead[i].startLine.some
           /\ resultsRead[i].endLine.v # resultsRead[i].startLine.v
           /\ items[i].line = resultsRead[i].startLine.v
    /\ \E i \in DOMAIN items :
           /\ resultsRead[i].endLine.some /\ ~resultsRead[i].startLine.some
           /\ items[i].line = 1

\* C7 (as claimed): whatever the location URI, absent, empty or not,
\* normalizePath returns a non-empty string
C7_PathNeverEmpty ==
    pc = "return" => ret.v # ""

\* the first 450 characters of t, cut back to just before the last of them
\* that is one of the separators, if there is one
cutBeforeLast(t, separators) ==
    LET at == {j \in 1..450 : SubSeq(t, j, j) \in separators}
    IN  IF at = {} THEN SubSeq(t, 1, 450)
        ELSE SubSeq(t, 1, (CHOOSE j \in at : \A l \in at : l <= j) - 1)

\* C8 (as claimed): for trimmed text longer than 450 characters smartSummary
\* returns the first 450 characters cut back to just before the last white
\* space character among them (all 450 if there is none), then "..."
C8_CutBeforeLastWhiteSpace ==
    (pc = "return" /\ Len(trim(arg)) > 450) =>
        ret.v = cutBeforeLast(trim(arg), WhiteSpace) \o "..."

\* C8 (amended): for trimmed text longer than 450 characters smartSummary
\* returns the first 450 characters cut back to just before the last space
\* (U+0020) among them (all 450 if there is no space), then "..."
C8_CutBeforeLastSpace ==
    (pc = "return" /\ Len(trim(arg)) > 450) =>
        ret.v = cutBeforeLast(trim(arg), {" "}) \o "..."

\* C8 witness: 500 characters whose only white space is a space at position
\* 440 give the first 440 characters and the ellipsis
C8_Witness ==
    /\ pc = "return"
    /\ Len(arg) = 500
    /\ \A j \in 0..499 : (charAt(arg, j) \in WhiteSpace) <=> (j = 440)
    /\ charAt(arg, 440) = " "
    /\ ret.v = SubSeq(arg, 1, 440) \o "..."

\* the report on stdin is well formed but for its rule catalog, which is absent
catalogMissing ==
    /\ sarifRaw.some
    /\ sarifRaw.v.json /\ sarifRaw.v.run0 /\ sarifRaw.v.name.some
    /\ ~sarifRaw.v.rules.some
    /\ sarifRaw.v.results.some

\* C9 (as claimed): without a rule catalog the rule index is empty and the
\* transformation goes on without an error, every finding taking its own
\* message text
C9_MissingCatalogTolerated ==
    (catalogMissing /\ pc # "sarifToBitBucket") =>
        /\ Transformed
        /\ Len(items) = Len(resultsRead)
        /\ \A i \in DOMAIN items :
               items[i].message = Coalesce(resultsRead[i].message, "")

\* C9 (amended): without a rule catalog rulesAsMap raises a TypeError: the
\* invocation is rejected with it, no finding is mapped and no request issued
C9_MissingCatalogRejected ==
    (catalogMissing /\ pc # "sarifToBitBucket") =>
        /\ pc = "caught"
        /\ error = Some("TypeError")
        /\ ~Transformed
        /\ items = <<>>
        /\ requests = <<>>

\* C9 witness: a report with findings and no rule catalog was rejected
C9_Witness ==
    /\ catalogMissing
    /\ resultsRead # <<>>
    /\ pc = "caught"

occurs(fragment, s) ==
    \E i \in 1..(Len(s) - Len(fragment) + 1) :
        SubSeq(s, i, i + Len(fragment) - 1) = fragment

matchesClass(class, s) == \E k \in DOMAIN class : occurs(class[k], s)

\* the lower-cased text inferSeverity is claimed to match against
matchedText == toLowerCase(arg.ruleId \o " " \o arg.text)

\* C10: inferSeverity returns one of the four ranks: CRITICAL if a class-1
\* fragment occurs in the lower-cased rule id and text, else HIGH if a class-2
\* fragment occurs, else MEDIUM if a class-3 fragment occurs, else LOW
C10_SeverityFirstMatchWins ==
    pc = "return" =>
        /\ ret.v \in {"CRITICAL", "HIGH", "MEDIUM", "LOW"}
        /\ (ret.v = "CRITICAL") <=> matchesClass(CriticalPattern, matchedText)
        /\ (ret.v = "HIGH") <=>
               /\ ~matchesClass(CriticalPattern, matchedText)
               /\ matchesClass(HighPattern, matchedText)
        /\ (ret.v = "MEDIUM") <=>
               /\ ~matchesClass(CriticalPattern, matchedText)
               /\ ~matchesClass(HighPattern, matchedText)
               /\ matchesClass(MediumPattern, matchedText)
        /\ (ret.v = "LOW") <=>
               /\ ~matchesClass(CriticalPattern, matchedText)
               /\ ~matchesClass(HighPattern, matchedText)
               /\ ~matchesClass(MediumPattern, matchedText)

\* C10 witness: a text matching all three classes was ranked CRITICAL
C10_Witness ==
    /\ pc = "return"
    /\ matchesClass(CriticalPattern, matchedText)
    /\ matchesClass(HighPattern, matchedText)
    /\ matchesClass(MediumPattern, matchedText)
    /\ ret.v = "CRITICAL"

\* the rank of a severity: CRITICAL > HIGH > MEDIUM > LOW
rank(severity) ==
    CASE severity = "CRITICAL" -> 4
      [] severity = "HIGH" -> 3
      [] severity = "MEDIUM" -> 2
      [] severity = "LOW" -> 1

\* the annotations of one severity, in the order the list has them
ofSeverity(list, severity) ==
    LET keep(a) == a.severity = severity IN SelectSeq(list, keep)

\* C11: the sequence mapSarif returns has non-increasing severity, and the
\* annotations of one severity are in it in the order of the deduplicated
\* sequence
C11_SortedStable ==
    Transformed =>
        /\ Len(sorted) = Len(unique)
        /\ \A k, l \in DOMAIN sorted :
               k < l => rank(sorted[k].severity) >= rank(sorted[l].severity)
        /\ \A severity \in {"CRITICAL", "HIGH", "MEDIUM", "LOW"} :
               ofSeverity(sorted, severity) =
                   ofSeverity(mapValues(unique), severity)

\* C11 witness: two annotations of equal severity left the sort in the
\* order the deduplication had put them in
C11_Witness ==
    /\ Transformed
    /\ Len(sorted) = 2
    /\ sorted[1].severity = sorted[2].severity
    /\ sorted[1] = unique[1].value
    /\ sorted[2] = unique[2].value
    /\ sorted[1] # sorted[2]

\* the maxAnnotations value of the invocation: the option, 100 without it
maxAnnotationsGiven ==
    IF argv.maxAnnotations.some THEN argv.maxAnnotations.v ELSE 100

\* C12: the annotations delivered are the first min(n, m) of the n sorted
\* ones, in their order and unchanged, m being maxAnnotations (default 100);
\* they are what the upload request carries
C12_DeliveredIsPrefix ==
    Transformed =>
        /\ Len(vulns) =
               (IF Len(sorted) <= maxAnnotationsGiven THEN Len(sorted)
                ELSE maxAnnotationsGiven)
        /\ \A i \in DOMAIN vulns : vulns[i] = sorted[i]
        /\ Len(requests) = 3 => requests[3].annotations = vulns

\* C12 witness: two sorted annotations and maxAnnotations 1: the upload
\* carried the first one alone
C12_Witness ==
    /\ Transformed
    /\ argv.maxAnnotations = Some(1)
    /\ Len(sorted) = 2
    /\ Len(requests) = 3
    /\ requests[3].method = "POST"
    /\ requests[3].annotations = <<sorted[1]>>

Ranks == {"CRITICAL", "HIGH", "MEDIUM", "LOW"}

\* how many annotations of the list have the severity
numberOf(list, severity) ==
    Cardinality({k \in DOMAIN list : list[k].severity = severity})

\* C13: buildDetails, given the sorted sequence before the limit, counts for
\* each of the four ranks the annotations of that severity (0 if none, the
\* counts adding up to the length), reports each count in its text, and
\* returns as highest the highest rank counted, LOW for the empty sequence
C13_DetailsCountEverySeverity ==
    Transformed =>
        /\ DOMAIN details.v.counts = Ranks
        /\ \A severity \in Ranks :
               /\ details.v.counts[severity] = numberOf(sorted, severity)
               /\ includes(details.v.summary,
                      " " \o severity \o ": "
                      \o numberToString(numberOf(sorted, severity)) \o "  ")
        /\ details.v.counts.CRITICAL + details.v.counts.HIGH
               + details.v.counts.MEDIUM + details.v.counts.LOW = Len(sorted)
        /\ details.v.highest \in Ranks
        /\ sorted = <<>> => details.v.highest = "LOW"
        /\ sorted # <<>> =>
               /\ numberOf(sorted, details.v.highest) > 0
               /\ \A k \in DOMAIN sorted :
                      rank(sorted[k].severity) <= rank(details.v.highest)

\* C13 witness: a CRITICAL and a LOW annotation were counted although the
\* limit delivered fewer annotations than that
C13_Witness ==
    /\ Transformed
    /\ Len(sorted) = 2
    /\ Len(vulns) < 2
    /\ details.v.counts =
           [CRITICAL |-> 1, HIGH |-> 0, MEDIUM |-> 0, LOW |-> 1]
    /\ details.v.highest = "CRITICAL"

\* C14: whatever the annotations and failOnCritical, a verdict that is
\* FAILED with failOnHigh disabled is FAILED with it enabled, and a CRITICAL
\* annotation gives FAILED under every combination of the two flags
C14_FailOnHighMonotone ==
    Transformed =>
        /\ FAIL_ON_HIGH =>
               (verdict(details.v.highest, FALSE, FAIL_ON_CRITICAL) = "FAILED"
                    => resultStatus.v = "FAILED")
        /\ ~FAIL_ON_HIGH =>
               (resultStatus.v = "FAILED"
                    => verdict(details.v.highest, TRUE, FAIL_ON_CRITICAL) = "FAILED")
        /\ hasSeverity(sorted, {"CRITICAL"}) =>
               /\ resultStatus.v = "FAILED"
               /\ \A h, c \in BOOLEAN :
                      verdict(details.v.highest, h, c) = "FAILED"

\* C14 witness: failOnHigh alone is set and a CRITICAL annotation, which
\* fails without the flag, gave FAILED
C14_Witness ==
    /\ Transformed
    /\ FAIL_ON_HIGH /\ ~FAIL_ON_CRITICAL
    /\ hasSeverity(sorted, {"CRITICAL"})
    /\ verdict(details.v.highest, FALSE, FALSE) = "FAILED"
    /\ resultStatus.v = "FAILED"

\* the report on stdin is not JSON, or lacks the first run, its tool name,
\* its rules or its results
malformedInput ==
    /\ sarifRaw.some
    /\ \/ ~sarifRaw.v.json
       \/ ~sarifRaw.v.run0
       \/ ~sarifRaw.v.name.some
       \/ ~sarifRaw.v.rules.some
       \/ ~sarifRaw.v.results.some

\* C15: on malformed input sarifToBitBucket fails with an error that reaches
\* the catch of its caller, and no delete, create or upload request is issued
\* nor any annotation produced
C15_MalformedInputRejected ==
    malformedInput =>
        /\ requests = <<>>
        /\ ~Transformed
        /\ items = <<>> /\ sorted = <<>> /\ vulns = <<>>
        /\ pc \in {"sarifToBitBucket", "caught"}
        /\ pc = "caught" =>
               /\ error.some
               /\ error.v \in {"SyntaxError", "TypeError"}

\* C15 witness: input that is not JSON was rejected with a SyntaxError and
\* no request
C15_Witness ==
    /\ sarifRaw.some
    /\ ~sarifRaw.v.json
    /\ pc = "caught"
    /\ error = Some("SyntaxError")
    /\ requests = <<>>

\* the methods of the requests issued, in the order of their issue
methods(list) == [i \in DOMAIN list |-> list[i].method]

DeliveryOrder == <<"DELETE", "PUT", "POST">>

\* the await the function is suspended at after issuing its n-th request
awaiting(n) ==
    CASE n = 1 -> "awaitDelete"
      [] n = 2 -> "awaitPut"
      [] n = 3 -> "awaitPost"

\* C16: the requests are issued at most once each and in the order delete,
\* create, upload; a request is issued only by the step in which the one
\* before it completes successfully, so after a failed request (a failed
\* delete, a failed create) no further request is ever issued
C16_RequestsInOrder ==
    /\ [](/\ Len(requests) <= 3
          /\ methods(requests) = SubSeq(DeliveryOrder, 1, Len(requests))
          /\ (error.some /\ error.v = "AxiosError") =>
                 (pc = "caught" /\ requests # <<>>))
    /\ [][requests' # requests =>
              /\ Len(requests') = Len(requests) + 1
              /\ SubSeq(requests', 1, Len(requests)) = requests
              /\ ~error.some /\ ~error'.some
              /\ requests # <<>> => pc = awaiting(Len(requests))
              /\ pc' = awaiting(Len(requests'))]_vars
    /\ [][pc = "caught" => (pc' = "caught" /\ requests' = requests)]_vars

\* C16 witness: the delete failed, and the invocation ended with the delete
\* as its only request
C16_Witness ==
    /\ pc = "caught"
    /\ error = Some("AxiosError")
    /\ methods(requests) = <<"DELETE">>

====
